---- MODULE Spec2Model ----
(***************************************************************************)
(* Transaction lifecycle client: get_balance, view_call, call_contract,    *)
(* wait_for_tx and the interactive driver main, against a remote gateway   *)
(* reached through api_call.                                               *)
(***************************************************************************)
EXTENDS Integers, Sequences, FiniteSets, TLC

\* ------------------------------------------------------------------ bounds
MaxBudget == 3     \* attempt budgets 0..MaxBudget given to a stand-alone wait_for_tx
MaxN      == 4     \* scripted gateways confirm on poll 1..MaxN
MaxPolls  == 6     \* status queries one wait_for_tx run is followed for
MaxNonce  == 1     \* the gateway's account nonce is followed up to this value
MaxIter   == 2     \* iterations of main that are followed
MaxClock  == 1     \* values Date.now() is followed through
MaxDiff   == 2     \* properties in which the two objects handed to sign_tx differ

\* ------------------------------------------------------- program constants
MainWaitBudget == 5    \* wait_for_tx(api_url, txHash, 5) in main
KeyLen         == 32   \* ed25519 secret key length accepted by ed.sign

\* ------------------------------------------------------------ plain values
\* JSON values as typeof sees them
Undefined == [type |-> "undefined", val |-> "undefined"]
Null      == [type |-> "object", val |-> "null"]
Str(s)    == [type |-> "string", val |-> s]
Num(s)    == [type |-> "number", val |-> s]

address          == <<"A">>   \* wallet.addr (strings of transaction fields are character sequences)
contract_address == <<"B">>   \* contract.contract
Reasons == {"invalid signature", "stale nonce", "insufficient balance"}
Hashes  == {"h1"}

NoReq  == [kind |-> "none"]
NoData == [kind |-> "none"]

\* what axios.default(...) can end with
Http2xx(d)   == [kind |-> "http2xx", data |-> d]
HttpError(d) == [kind |-> "httpError", data |-> d]   \* err.response is set
NetError     == [kind |-> "netError", data |-> NoData]  \* no err.response

VARIABLES
    \* ---- wait_for_tx
    wpc,            \* "idle" | "query" | "await" | "sleep" | "done" | "threw"
    tx_hash,        \* the hash being polled
    max_wait_time,  \* the attempt budget of the running invocation
    elapsed,        \* wait_for_tx's counter
    outcome,        \* "pending" | "confirmed" | "timedOut" | "rejected"
    queries,        \* status queries issued by the running invocation
    waits,          \* 5000 ms sleeps taken by the running invocation
    lastStatus,     \* what the latest status query ended with
    gwN,            \* 0: the gateway answers freely; N>0: pending N-1 times, then confirmed
    \* ---- transport
    inflight,       \* the request axios has outstanding, or NoReq
    reqlog,         \* the gateway requests issued so far by the current run of main
    outstanding,    \* how many gateway requests have been issued and not yet answered
    \* ---- gateway and clock
    gwNonce,        \* the account's last-used nonce at the gateway
    gwPending,      \* nonces of accepted transactions the gateway has not applied yet
    now,            \* Date.now(), in ms
    \* ---- main
    pc,             \* main's position
    iter,           \* how many times main has been entered
    skLen,          \* byte length of sk = base64ToUnit8Array(wallet.priv)
    nonce,          \* main's const nonce (from get_balance)
    freshNonce,     \* nonce comes from a get_balance no call_contract has used yet
    choice,         \* the selected method and the collected params
    viewResp,       \* what the latest call-view request ended with
    viewResult,     \* main's callContract, the value view_call returned
    TxData,         \* call_contract's transaction
    signature,      \* call_contract's signature
    postResp,       \* what the latest call-contract request ended with
    txHash,         \* main's txHash, the value call_contract returned
    error,          \* the error main was rejected with
    submitted,      \* history: per POST /call-contract, the nonce sent and the nonce fetched
    console,        \* what is on the terminal
    \* ---- sign_tx on its own
    spc,            \* "idle" | "ready" | "signed"
    tx1, tx2,       \* two transaction objects handed to sign_tx
    sig1, sig2      \* what sign_tx returned for them

pollVars == <<wpc, tx_hash, max_wait_time, elapsed, outcome, queries, waits, lastStatus, gwN>>
netVars  == <<inflight, reqlog, outstanding>>
envVars  == <<gwNonce, gwPending, now>>
callVars == <<TxData, signature, postResp, txHash, submitted>>
viewVars == <<viewResp, viewResult>>
mainVars == <<pc, iter, skLen, nonce, freshNonce, choice, error, console>>
signVars == <<spc, tx1, tx2, sig1, sig2>>
vars == <<pollVars, netVars, envVars, callVars, viewVars, mainVars, signVars>>

NoTx    == [kind |-> "none"]
NoSig   == [kind |-> "none"]
NoError == [kind |-> "none"]
NoChoice == [kind |-> "none"]
NoValue == [type |-> "unset", val |-> "unset"]   \* a const not yet initialised

Req(method, url, data) == [kind |-> "req", method |-> method, url |-> url, data |-> data]

\* ---------------------------------------------------------------- api_call
\* try { return response.data } catch (err) { if (err.response) throw new
\* Error(`api error: `, err.response.data); throw err }
\* The Error constructor's second argument is an options bag, so the
\* response body is not part of the message.
api_call(resp) ==
    CASE resp.kind = "http2xx"   -> [kind |-> "return", data |-> resp.data,
                                     name |-> "none", message |-> <<>>]
      [] resp.kind = "httpError" -> [kind |-> "throw", data |-> NoData,
                                     name |-> "Error", message |-> <<"api error: ">>]
      [] resp.kind = "netError"  -> [kind |-> "throw", data |-> NoData,
                                     name |-> "AxiosError", message |-> <<"Network Error">>]

\* ------------------------------------------------------------- wait_for_tx
StatusBody(s) == [status |-> Str(s)]

\* the answers GET /tx/{hash} can get on the k-th query of an invocation
StatusResponses(k) ==
    IF gwN = 0
    THEN {Http2xx(StatusBody(s)) : s \in {"confirmed", "pending", "failed"}}
         \cup {HttpError(Str("not found")), NetError}
    ELSE IF k < gwN THEN {Http2xx(StatusBody("pending"))}
                    ELSE {Http2xx(StatusBody("confirmed"))}

\* JavaScript truthiness of a number
Truthy(n) == n # 0

\* one pass of the loop body after the status query r came back:
\* what wait_for_tx does next
wait_step(r, el, budget) ==
    IF r.kind = "throw" THEN "threw"
    ELSE IF r.data.status = Str("confirmed") THEN "confirmed"
    ELSE IF Truthy(budget) /\ el >= budget THEN "timedOut"
    ELSE "sleep"

\* const spinner = createLoading(...); let elapsed = 0;
WaitStart(hash, budget) ==
    /\ wpc' = "query"
    /\ tx_hash' = hash
    /\ max_wait_time' = budget
    /\ elapsed' = 0
    /\ outcome' = "pending"
    /\ queries' = 0
    /\ waits' = 0
    /\ lastStatus' = NoReq

\* the invocation is over: its locals are gone
WaitExit ==
    /\ wpc' = "idle"
    /\ tx_hash' = NoValue
    /\ max_wait_time' = 0
    /\ elapsed' = 0
    /\ outcome' = "pending"
    /\ queries' = 0
    /\ waits' = 0
    /\ lastStatus' = NoReq
    /\ gwN' = gwN

\* elapsed += 1; api_call('GET', `${api_url}/tx/${tx_hash}`) is issued
PollSend ==
    /\ wpc = "query"
    /\ queries < MaxPolls
    /\ outstanding' = outstanding + 1
    /\ elapsed' = elapsed + 1
    /\ queries' = queries + 1
    /\ inflight' = Req("GET", <<"tx", tx_hash>>, NoData)
    /\ reqlog' = Append(reqlog, <<"GET", "tx">>)
    /\ wpc' = "await"
    /\ UNCHANGED <<tx_hash, max_wait_time, outcome, waits, lastStatus, gwN>>
    /\ UNCHANGED <<envVars, callVars, viewVars, mainVars>>
    /\ UNCHANGED signVars

\* PollRecv with the setTimeout awaited before the two break tests
PollRecv_SleepFirst ==
    /\ wpc = "await"
    /\ \E resp \in StatusResponses(queries) :
         LET r    == api_call(resp)
             step == wait_step(r, elapsed, max_wait_time)
         IN /\ lastStatus' = resp
            /\ wpc' = CASE step = "threw" -> "threw"
                        [] step = "sleep" -> "query"
                        [] OTHER -> "done"
            /\ outcome' = CASE step = "threw"     -> "rejected"
                            [] step = "confirmed" -> "confirmed"
                            [] step = "timedOut"  -> "timedOut"
                            [] OTHER -> outcome
            /\ waits' = IF step = "threw" THEN waits ELSE waits + 1
    /\ inflight' = NoReq
    /\ outstanding' = outstanding - 1
    /\ UNCHANGED <<tx_hash, max_wait_time, elapsed, queries, gwN, reqlog>>
    /\ UNCHANGED <<envVars, callVars, viewVars, mainVars>>
    /\ UNCHANGED signVars

\* the status query comes back; the rest of the loop body runs up to the
\* break, the throw or the setTimeout
PollRecv ==
    /\ wpc = "await"
    /\ \E resp \in StatusResponses(queries) :
         LET r    == api_call(resp)
             step == wait_step(r, elapsed, max_wait_time)
         IN /\ lastStatus' = resp
            /\ wpc' = CASE step = "threw" -> "threw"
                        [] step = "sleep" -> "sleep"
                        [] OTHER -> "done"
            /\ outcome' = CASE step = "threw"     -> "rejected"
                            [] step = "confirmed" -> "confirmed"
                            [] step = "timedOut"  -> "timedOut"
                            [] OTHER -> outcome
    /\ inflight' = NoReq
    /\ outstanding' = outstanding - 1
    /\ UNCHANGED <<tx_hash, max_wait_time, elapsed, queries, waits, gwN, reqlog>>
    /\ UNCHANGED <<envVars, callVars, viewVars, mainVars>>
    /\ UNCHANGED signVars

\* await new Promise(resolve => setTimeout(resolve, 5000))
PollSleep ==
    /\ wpc = "sleep"
    /\ waits' = waits + 1
    /\ wpc' = "query"
    /\ UNCHANGED <<tx_hash, max_wait_time, elapsed, outcome, queries, lastStatus, gwN>>
    /\ UNCHANGED <<netVars, envVars, callVars, viewVars, mainVars>>
    /\ UNCHANGED signVars

\* ----------------------------------------------------------------- gateway
\* GET /balance/{address} -> {balance, nonce}
BalanceResponses ==
    {Http2xx([balance |-> Str("10"), nonce |-> gwNonce]),
     HttpError(Str("unknown address")), NetError}

\* POST /contract/call-view -> {status, result?}
ViewBodies ==
    [status : {Str("success"), Str("error"), Undefined},
     result : {Str("42"), Str(""), Num("42"), Null, Undefined}]
ViewResponses ==
    {Http2xx(b) : b \in ViewBodies} \cup {HttpError(Str("bad method")), NetError}

\* POST /call-contract -> {tx_hash} or an error envelope, which arrives either
\* with an HTTP error status or as a 2xx body without tx_hash
Accepted(h)  == [tx_hash |-> Str(h), error |-> Undefined]
Rejected(r)  == [tx_hash |-> Undefined, error |-> Str(r)]
PostResponses ==
    {Http2xx(Accepted(h)) : h \in Hashes}
    \cup {Http2xx(Rejected(r)) : r \in Reasons}
    \cup {HttpError(Rejected(r)) : r \in Reasons}
    \cup {NetError}

\* the gateway applies an accepted transaction: the account nonce advances
GwApply ==
    /\ \E n \in gwPending :
         /\ n = gwNonce + 1
         /\ gwNonce' = n
         /\ gwPending' = {m \in gwPending : m > n}
    /\ UNCHANGED <<now, pollVars, netVars, callVars, viewVars, mainVars>>
    /\ UNCHANGED signVars

\* time passes
Tick ==
    /\ now < MaxClock
    /\ pc \notin {"exited", "crashed", "harness"}
    /\ now' = now + 1
    /\ UNCHANGED <<gwNonce, gwPending, pollVars, netVars, callVars, viewVars, mainVars>>
    /\ UNCHANGED signVars

\* ------------------------------------------------------------------ signing
sk == [id |-> "priv", len |-> skLen]

\* Date.now() / 1000, held exactly
Timestamp(ms) == [num |-> ms, den |-> 1000]

\* ---- JSON.stringify, character by character
Quote     == "\""
Backslash == "\\"

\* a string's characters with " and \ escaped
RECURSIVE Escape(_)
Escape(s) ==
    IF s = <<>> THEN <<>>
    ELSE (IF Head(s) \in {Quote, Backslash} THEN <<Backslash, Head(s)>> ELSE <<Head(s)>>)
         \o Escape(Tail(s))

QuoteChars(s) == <<Quote>> \o Escape(s) \o <<Quote>>

DigitChar == <<"0", "1", "2", "3", "4", "5", "6", "7", "8", "9">>

\* a non-negative integer in decimal
RECURSIVE Digits(_)
Digits(n) ==
    IF n < 10 THEN <<DigitChar[n + 1]>>
    ELSE Digits(n \div 10) \o <<DigitChar[(n % 10) + 1]>>

\* the fraction f/1000 (0 < f < 1000) after the point, trailing zeros dropped
FractionChars(f) ==
    LET d1 == f \div 100
        d2 == (f \div 10) % 10
        d3 == f % 10
    IN <<DigitChar[d1 + 1]>>
       \o (IF d2 # 0 \/ d3 # 0 THEN <<DigitChar[d2 + 1]>> ELSE <<>>)
       \o (IF d3 # 0 THEN <<DigitChar[d3 + 1]>> ELSE <<>>)

\* the number t.num / t.den in decimal
FloatChars(t) ==
    Digits(t.num \div t.den)
    \o (IF t.num % t.den = 0 THEN <<>> ELSE <<".">> \o FractionChars(t.num % t.den))

JStr(s)   == [quoted |-> TRUE,  text |-> s, chars |-> QuoteChars(s)]
JNum(n)   == [quoted |-> FALSE, text |-> n, chars |-> Digits(n)]
JFloat(t) == [quoted |-> FALSE, text |-> t, chars |-> FloatChars(t)]

\* the object literal of sign_tx, lines 85-92: six keys in this order
blob(tx) ==
    << <<"from", JStr(tx.from)>>, <<"to_", JStr(tx.to_)>>, <<"amount", JStr(tx.amount)>>,
       <<"nonce", JNum(tx.nonce)>>, <<"ou", JStr(tx.ou)>>, <<"timestamp", JFloat(tx.timestamp)>> >>

RECURSIVE Members(_, _)
Members(b, i) ==
    IF i > Len(b) THEN <<>>
    ELSE (IF i > 1 THEN <<",">> ELSE <<>>)
         \o <<Quote, b[i][1], Quote, ":">> \o b[i][2].chars
         \o Members(b, i + 1)

\* stringify with the values run together, without keys, quotes or commas
stringify_ValuesOnly(b) ==
    b[1][2].text \o b[2][2].text \o b[3][2].text \o b[4][2].chars \o b[5][2].text
    \o b[6][2].chars

\* JSON.stringify of the object literal: the text that is signed
stringify(b) == <<"{">> \o Members(b, 1) \o <<"}">>

\* Buffer.from(ed.getPublicKey(sk)).toString('base64')
PublicKey(key) == [kind |-> "pub", of |-> key.id]

\* ed.sign(Buffer.from(blob), sk), base64; ed.sign throws on a key that is
\* not KeyLen bytes long
sign_tx(key, tx) ==
    IF key.len # KeyLen
    THEN [kind |-> "throw", name |-> "SignError", message |-> <<"invalid secret key length">>,
          data |-> NoData]
    ELSE [kind |-> "return", name |-> "none", message |-> <<>>,
          data |-> [kind |-> "sig", msg |-> stringify(blob(tx)), by |-> PublicKey(key)]]

\* lines 119-129 of call_contract
BuildTx(addr, n, contract, ms) ==
    [from |-> addr, to_ |-> contract, amount |-> <<"0">>, nonce |-> n + 1, ou |-> <<"1">>,
     timestamp |-> Timestamp(ms)]

\* SubmitPayload with the clock read again for the body
SubmitPayload_ClockReread(tx, sig, addr, contract, method, params, ms) ==
    [contract |-> contract, method |-> method, params |-> params, caller |-> addr,
     nonce |-> tx.nonce, timestamp |-> Timestamp(ms), signature |-> sig,
     public_key |-> PublicKey(sk)]

\* SubmitPayload with the secret key bytes sent as the public key
SubmitPayload_RawKey(tx, sig, addr, contract, method, params, ms) ==
    [contract |-> contract, method |-> method, params |-> params, caller |-> addr,
     nonce |-> tx.nonce, timestamp |-> tx.timestamp, signature |-> sig,
     public_key |-> sk]

\* the body of POST /call-contract, lines 135-144
SubmitPayload(tx, sig, addr, contract, method, params, ms) ==
    [contract |-> contract, method |-> method, params |-> params, caller |-> addr,
     nonce |-> tx.nonce, timestamp |-> tx.timestamp, signature |-> sig,
     public_key |-> PublicKey(sk)]

\* view_result without the typeof test
view_result_AnyType(body) ==
    IF body.status = Str("success") THEN body.result ELSE Null

\* ---------------------------------------------------------------- view_call
view_result(body) ==
    IF body.status = Str("success")
    THEN IF body.result.type = "string" THEN body.result ELSE Null
    ELSE Null

\* --------------------------------------------------------------------- main
Params == {<<>>, <<"x">>}

Crash(err) ==
    /\ pc' = "crashed"
    /\ error' = [name |-> err.name, message |-> err.message]

\* console.log(`Address: ...`); get_balance issues GET /balance/{addr}
MainStart ==
    /\ pc = "start"
    /\ outstanding' = outstanding + 1
    /\ console' = console \cup {<<"Address", address>>}
    /\ inflight' = Req("GET", <<"balance", address>>, NoData)
    /\ reqlog' = <<<<"GET", "balance">>>>
    /\ pc' = "balance"
    /\ UNCHANGED <<iter, skLen, nonce, freshNonce, choice, error>>
    /\ UNCHANGED <<pollVars, envVars, callVars, viewVars>>
    /\ UNCHANGED signVars

\* get_balance returns {balance, nonce} or api_call throws; the menu is printed
MainBalanceRecv ==
    /\ pc = "balance"
    /\ \E resp \in BalanceResponses :
         LET r == api_call(resp)
         IN IF r.kind = "throw"
            THEN /\ Crash(r)
                 /\ UNCHANGED <<nonce, freshNonce, console>>
            ELSE /\ nonce' = r.data.nonce
                 /\ freshNonce' = TRUE
                 /\ console' = console \cup {<<"Balance", r.data.balance>>, <<"menu">>}
                 /\ pc' = "menu"
                 /\ error' = error
    /\ inflight' = NoReq
    /\ outstanding' = outstanding - 1
    /\ UNCHANGED <<iter, skLen, choice, reqlog>>
    /\ UNCHANGED <<pollVars, envVars, callVars, viewVars>>
    /\ UNCHANGED signVars

\* selectedMethod === '0'
MainExit ==
    /\ pc = "menu"
    /\ console' = console \cup {<<"Exiting...">>}
    /\ pc' = "exited"
    /\ UNCHANGED <<iter, skLen, nonce, freshNonce, choice, error>>
    /\ UNCHANGED <<pollVars, netVars, envVars, callVars, viewVars>>
    /\ UNCHANGED signVars

\* case 'view': the params are prompted for; view_call issues its request
MainPickView ==
    /\ pc = "menu"
    /\ outstanding' = outstanding + 1
    /\ \E ps \in Params :
         /\ choice' = [kind |-> "view", method |-> "get", params |-> ps]
         /\ inflight' = Req("POST", <<"contract", "call-view">>,
                            [contract |-> contract_address, method |-> "get",
                             params |-> ps, caller |-> address])
    /\ reqlog' = Append(reqlog, <<"POST", "call-view">>)
    /\ pc' = "view"
    /\ UNCHANGED <<iter, skLen, nonce, freshNonce, error, console>>
    /\ UNCHANGED <<pollVars, envVars, callVars, viewVars>>
    /\ UNCHANGED signVars

\* view_call returns; console.log(`Result: ...`)
ViewRecv ==
    /\ pc = "view"
    /\ \E resp \in ViewResponses :
         LET r == api_call(resp)
         IN /\ viewResp' = resp
            /\ IF r.kind = "throw"
               THEN /\ Crash(r)
                    /\ UNCHANGED <<viewResult, console>>
               ELSE /\ viewResult' = view_result(r.data)
                    /\ console' = console \cup {<<"Result", view_result(r.data)>>}
                    /\ pc' = "cont"
                    /\ error' = error
    /\ inflight' = NoReq
    /\ outstanding' = outstanding - 1
    /\ UNCHANGED <<iter, skLen, nonce, freshNonce, choice, reqlog>>
    /\ UNCHANGED <<pollVars, envVars, callVars>>
    /\ UNCHANGED signVars

\* case 'call': the params are prompted for and call_contract is entered
MainPickCall ==
    /\ pc = "menu"
    /\ \E ps \in Params :
         choice' = [kind |-> "call", method |-> "set", params |-> ps]
    /\ pc' = "call"
    /\ UNCHANGED <<iter, skLen, nonce, freshNonce, error, console>>
    /\ UNCHANGED <<pollVars, netVars, envVars, callVars, viewVars>>
    /\ UNCHANGED signVars

\* default: console.log('Invalid selection. Please try again.')
MainInvalid ==
    /\ pc = "menu"
    /\ console' = console \cup {<<"Invalid selection">>}
    /\ pc' = "cont"
    /\ UNCHANGED <<iter, skLen, nonce, freshNonce, choice, error>>
    /\ UNCHANGED <<pollVars, netVars, envVars, callVars, viewVars>>
    /\ UNCHANGED signVars

\* CallConstructSign with the POST issued before the signature is awaited
CallConstructSign_PostFirst ==
    /\ pc = "call"
    /\ LET tx == BuildTx(address, nonce, contract_address, now)
           sg == sign_tx(sk, tx)
       IN /\ TxData' = tx
          /\ console' = console \cup {<<"Using nonce", tx.nonce>>}
          /\ freshNonce' = FALSE
          /\ reqlog' = Append(reqlog, <<"POST", "call-contract">>)
          /\ IF sg.kind = "throw"
             THEN /\ Crash(sg)
                  /\ signature' = signature
             ELSE /\ signature' = sg.data
                  /\ pc' = "post"
                  /\ error' = error
    /\ UNCHANGED <<iter, skLen, nonce, choice, inflight, outstanding>>
    /\ UNCHANGED <<postResp, txHash, submitted>>
    /\ UNCHANGED <<pollVars, envVars, viewVars>>
    /\ UNCHANGED signVars

\* call_contract, lines 119-132: the transaction is built and signed
CallConstructSign ==
    /\ pc = "call"
    /\ LET tx == BuildTx(address, nonce, contract_address, now)
           sg == sign_tx(sk, tx)
       IN /\ TxData' = tx
          /\ console' = console \cup {<<"Using nonce", tx.nonce>>}
          /\ freshNonce' = FALSE
          /\ IF sg.kind = "throw"
             THEN /\ Crash(sg)
                  /\ signature' = signature
             ELSE /\ signature' = sg.data
                  /\ pc' = "post"
                  /\ error' = error
    /\ UNCHANGED <<iter, skLen, nonce, choice>>
    /\ UNCHANGED <<postResp, txHash, submitted>>
    /\ UNCHANGED <<pollVars, netVars, envVars, viewVars>>
    /\ UNCHANGED signVars

\* call_contract, lines 133-144: the public key is derived and the POST issued
CallPostSend ==
    /\ pc = "post"
    /\ outstanding' = outstanding + 1
    /\ inflight' = Req("POST", <<"call-contract">>,
                       SubmitPayload(TxData, signature, address, contract_address,
                                     choice.method, choice.params, now))
    /\ reqlog' = Append(reqlog, <<"POST", "call-contract">>)
    /\ submitted' = Append(submitted, [nonce |-> inflight'.data.nonce, fetched |-> nonce])
    /\ pc' = "postwait"
    /\ UNCHANGED <<TxData, signature, postResp, txHash>>
    /\ UNCHANGED <<iter, skLen, nonce, freshNonce, choice, error, console>>
    /\ UNCHANGED <<pollVars, envVars, viewVars>>
    /\ UNCHANGED signVars

\* CallPostRecv sending the same request again when the body has no tx_hash
CallPostRecv_RetryOnReject ==
    /\ pc = "postwait"
    /\ \E resp \in PostResponses :
         LET r == api_call(resp)
             retry == resp.kind = "http2xx" /\ resp.data.tx_hash = Undefined
         IN /\ postResp' = resp
            /\ gwPending' = IF resp.kind = "http2xx" /\ resp.data.tx_hash # Undefined
                            THEN gwPending \cup {inflight.data.nonce}
                            ELSE gwPending
            /\ IF r.kind = "throw"
               THEN /\ Crash(r)
                    /\ UNCHANGED <<txHash, console>>
               ELSE /\ txHash' = r.data.tx_hash
                    /\ console' = console \cup {<<"Transaction submitted.">>}
                    /\ pc' = IF retry THEN "post" ELSE "askWait"
                    /\ error' = error
            /\ TxData' = IF retry THEN TxData ELSE NoTx
            /\ signature' = IF retry THEN signature ELSE NoSig
    /\ inflight' = NoReq
    /\ outstanding' = outstanding - 1
    /\ UNCHANGED <<submitted, reqlog, gwNonce, now>>
    /\ UNCHANGED <<iter, skLen, nonce, freshNonce, choice>>
    /\ UNCHANGED <<pollVars, viewVars>>
    /\ UNCHANGED signVars

\* call_contract returns response.tx_hash or api_call throws;
\* console.log(`Transaction submitted.`)
CallPostRecv ==
    /\ pc = "postwait"
    /\ \E resp \in PostResponses :
         LET r == api_call(resp)
         IN /\ postResp' = resp
            /\ gwPending' = IF resp.kind = "http2xx" /\ resp.data.tx_hash # Undefined
                            THEN gwPending \cup {inflight.data.nonce}
                            ELSE gwPending
            /\ IF r.kind = "throw"
               THEN /\ Crash(r)
                    /\ UNCHANGED <<txHash, console>>
               ELSE /\ txHash' = r.data.tx_hash
                    /\ console' = console \cup {<<"Transaction submitted.">>}
                    /\ pc' = "askWait"
                    /\ error' = error
    /\ inflight' = NoReq
    /\ outstanding' = outstanding - 1
    /\ TxData' = NoTx
    /\ signature' = NoSig
    /\ UNCHANGED <<submitted, reqlog, gwNonce, now>>
    /\ UNCHANGED <<iter, skLen, nonce, freshNonce, choice>>
    /\ UNCHANGED <<pollVars, viewVars>>
    /\ UNCHANGED signVars

\* MainWaitYes with wait_for_tx started but not awaited
MainWaitYes_NoAwait ==
    /\ pc = "askWait"
    /\ WaitStart(txHash, MainWaitBudget)
    /\ pc' = "cont"
    /\ UNCHANGED <<gwN, iter, skLen, nonce, freshNonce, choice, error, console>>
    /\ UNCHANGED <<netVars, envVars, callVars, viewVars>>
    /\ UNCHANGED signVars

\* waitTx.toLowerCase() === 'y': wait_for_tx(api_url, txHash, 5) is entered
MainWaitYes ==
    /\ pc = "askWait"
    /\ WaitStart(txHash, MainWaitBudget)
    /\ pc' = "polling"
    /\ UNCHANGED <<gwN, iter, skLen, nonce, freshNonce, choice, error, console>>
    /\ UNCHANGED <<netVars, envVars, callVars, viewVars>>
    /\ UNCHANGED signVars

\* any other answer; console.log(`Transaction hash: ...`)
MainWaitNo ==
    /\ pc = "askWait"
    /\ console' = console \cup {<<"Transaction hash", txHash>>}
    /\ pc' = "cont"
    /\ UNCHANGED <<iter, skLen, nonce, freshNonce, choice, error>>
    /\ UNCHANGED <<pollVars, netVars, envVars, callVars, viewVars>>
    /\ UNCHANGED signVars

\* wait_for_tx returned; console.log(`Transaction hash: ...`)
MainAfterWait ==
    /\ pc = "polling"
    /\ wpc = "done"
    /\ console' = console \cup {<<"spinner", outcome>>, <<"Transaction hash", txHash>>}
    /\ WaitExit
    /\ pc' = "cont"
    /\ UNCHANGED <<iter, skLen, nonce, freshNonce, choice, error>>
    /\ UNCHANGED <<netVars, envVars, callVars, viewVars>>
    /\ UNCHANGED signVars

\* wait_for_tx was rejected by a throwing api_call: main is rejected too
MainWaitThrew ==
    /\ pc = "polling"
    /\ wpc = "threw"
    /\ Crash(api_call(lastStatus))
    /\ WaitExit
    /\ UNCHANGED <<iter, skLen, nonce, freshNonce, choice, console>>
    /\ UNCHANGED <<netVars, envVars, callVars, viewVars>>
    /\ UNCHANGED signVars

\* MainContinue re-entering at the menu with the nonce kept in memory
MainContinue_KeepNonce ==
    /\ pc = "cont"
    /\ iter < MaxIter
    /\ console' = {}
    /\ iter' = iter + 1
    /\ pc' = "menu"
    /\ choice' = NoChoice
    /\ viewResp' = NoReq /\ viewResult' = NoValue
    /\ postResp' = NoReq /\ txHash' = NoValue
    /\ UNCHANGED <<skLen, nonce, freshNonce, error>>
    /\ UNCHANGED <<TxData, signature, submitted>>
    /\ UNCHANGED <<pollVars, netVars, envVars>>
    /\ UNCHANGED signVars

\* 'Press Enter to continue...', the terminal is cleared, main() is entered again
\* (the finished run's consts are gone)
MainContinue ==
    /\ pc = "cont"
    /\ iter < MaxIter
    /\ console' = {}
    /\ iter' = iter + 1
    /\ pc' = "start"
    /\ choice' = NoChoice
    /\ viewResp' = NoReq /\ viewResult' = NoValue
    /\ postResp' = NoReq /\ txHash' = NoValue
    /\ UNCHANGED <<skLen, nonce, freshNonce, error>>
    /\ UNCHANGED <<TxData, signature, submitted>>
    /\ UNCHANGED <<pollVars, netVars, envVars>>
    /\ UNCHANGED signVars

Init ==
    /\ wpc = "idle"
    /\ tx_hash = NoValue
    /\ max_wait_time = 0
    /\ elapsed = 0
    /\ outcome = "pending"
    /\ queries = 0
    /\ waits = 0
    /\ lastStatus = NoReq
    /\ gwN = 0
    /\ inflight = NoReq
    /\ reqlog = <<>>
    /\ outstanding = 0
    /\ gwNonce \in 0..MaxNonce /\ gwPending = {} /\ now = 0
    /\ pc = "start" /\ iter = 1 /\ skLen \in {KeyLen, KeyLen - 1}
    /\ nonce = 0 /\ freshNonce = FALSE
    /\ choice = NoChoice /\ error = NoError /\ console = {}
    /\ viewResp = NoReq /\ viewResult = NoValue
    /\ TxData = NoTx /\ signature = NoSig /\ postResp = NoReq /\ txHash = NoValue
    /\ submitted = <<>>
    /\ spc = "idle" /\ tx1 = NoTx /\ tx2 = NoTx /\ sig1 = NoSig /\ sig2 = NoSig

Next ==
    \/ MainStart \/ MainBalanceRecv
    \/ MainExit \/ MainPickView \/ MainPickCall \/ MainInvalid
    \/ ViewRecv
    \/ CallConstructSign \/ CallPostSend \/ CallPostRecv
    \/ MainWaitYes \/ MainWaitNo
    \/ PollSend \/ PollRecv \/ PollSleep
    \/ MainAfterWait \/ MainWaitThrew
    \/ MainContinue
    \/ GwApply \/ Tick

Spec == Init /\ [][Next]_vars

\* ------------------------------------------- wait_for_tx on its own
InitPoll ==
    /\ wpc = "query"
    /\ tx_hash = Str("h1")
    /\ max_wait_time \in 0..MaxBudget
    /\ elapsed = 0
    /\ outcome = "pending"
    /\ queries = 0
    /\ waits = 0
    /\ lastStatus = NoReq
    /\ gwN \in 0..MaxN
    /\ inflight = NoReq
    /\ reqlog = <<>>
    /\ outstanding = 0
    /\ gwNonce = 0 /\ gwPending = {} /\ now = 0
    /\ pc = "harness" /\ iter = 0 /\ skLen = KeyLen /\ nonce = 0 /\ freshNonce = FALSE
    /\ choice = NoChoice /\ error = NoError /\ console = {}
    /\ viewResp = NoReq /\ viewResult = NoValue
    /\ TxData = NoTx /\ signature = NoSig /\ postResp = NoReq /\ txHash = NoValue
    /\ submitted = <<>>
    /\ spc = "idle" /\ tx1 = NoTx /\ tx2 = NoTx /\ sig1 = NoSig /\ sig2 = NoSig

NextPoll == PollSend \/ PollRecv \/ PollSleep

SpecPoll == InitPoll /\ [][NextPoll]_vars

FairSpecPoll == SpecPoll /\ WF_vars(NextPoll)

\* --------------------------------------------------- sign_tx on its own
\* transaction objects: the six fields of Tx and a property Tx does not declare
FieldStrings == {<<>>, <<"a">>, <<Quote>>}
TxObjects ==
    [from : FieldStrings, to_ : FieldStrings, amount : {<<"0">>, <<"1">>},
     nonce : {1, 12}, ou : {<<"1">>, <<"2">>},
     timestamp : {Timestamp(0), Timestamp(1500)}, memo : {0, 1}]

InitSign ==
    /\ wpc = "idle"
    /\ tx_hash = NoValue
    /\ max_wait_time = 0
    /\ elapsed = 0
    /\ outcome = "pending"
    /\ queries = 0
    /\ waits = 0
    /\ lastStatus = NoReq
    /\ gwN = 0
    /\ inflight = NoReq
    /\ reqlog = <<>>
    /\ outstanding = 0
    /\ gwNonce = 0 /\ gwPending = {} /\ now = 0
    /\ pc = "harness" /\ iter = 0 /\ skLen = KeyLen /\ nonce = 0 /\ freshNonce = FALSE
    /\ choice = NoChoice /\ error = NoError /\ console = {}
    /\ viewResp = NoReq /\ viewResult = NoValue
    /\ TxData = NoTx /\ signature = NoSig /\ postResp = NoReq /\ txHash = NoValue
    /\ submitted = <<>>
    /\ spc = "ready"
    /\ tx1 \in TxObjects
    /\ tx2 = tx1
    /\ sig1 = NoSig /\ sig2 = NoSig

nonSignVars == <<pollVars, netVars, envVars, callVars, viewVars, mainVars>>

FieldValues(f) == {t[f] : t \in TxObjects}
Differing(a, b) == {f \in DOMAIN a : a[f] # b[f]}

\* the second object gets another value in one property
AlterField ==
    /\ spc = "ready"
    /\ \E f \in DOMAIN tx2 :
         \E v \in FieldValues(f) :
            /\ v # tx2[f]
            /\ Cardinality(Differing(tx1, [tx2 EXCEPT ![f] = v])) <= MaxDiff
            /\ tx2' = [tx2 EXCEPT ![f] = v]
    /\ UNCHANGED <<spc, tx1, sig1, sig2, nonSignVars>>

\* sign_tx(sk, tx1) and sign_tx(sk, tx2)
SignBoth ==
    /\ spc = "ready"
    /\ sig1' = sign_tx(sk, tx1).data
    /\ sig2' = sign_tx(sk, tx2).data
    /\ spc' = "signed"
    /\ UNCHANGED <<tx1, tx2, nonSignVars>>

NextSign == AlterField \/ SignBoth

SpecSign == InitSign /\ [][NextSign]_vars

\* ================================================================== claims
Terminal == wpc \in {"done", "threw"}
Failed(resp) == resp.kind \in {"httpError", "netError"}

\* C1: against a gateway that answers "pending" N-1 times and "confirmed" on
\* the N-th query, wait_for_tx with a budget >= N ends confirmed after exactly
\* N queries, and with a budget < N ends timedOut after exactly budget
\* queries and never issues more than budget queries.
C1_ScriptedPolling ==
    gwN >= 1 =>
        /\ (max_wait_time < gwN => queries <= max_wait_time)
        /\ (Terminal /\ max_wait_time >= gwN => outcome = "confirmed" /\ queries = gwN)
        /\ (Terminal /\ max_wait_time < gwN =>
                outcome = "timedOut" /\ queries = max_wait_time)

\* C2: a status query that fails is one non-confirming attempt: it never
\* aborts wait_for_tx, and when the budget runs out on failing queries the
\* invocation ends timedOut, not rejected with the transport error.
C2_FailedPollAbsorbed ==
    (lastStatus # NoReq /\ Failed(lastStatus) /\ wpc # "await") =>
        /\ wpc # "threw"
        /\ outcome \in {"pending", "timedOut"}

\* C6: the poller only moves pending -> confirmed or pending -> timedOut; once
\* it is confirmed or the budget is reached it issues no further query and its
\* outcome stays; a status other than "confirmed" leaves it pending.
C6_PollerTransitions ==
    [][ /\ (outcome = "pending" => outcome' \in {"pending", "confirmed", "timedOut"})
        /\ (outcome # "pending" => outcome' = outcome /\ queries' = queries)
        /\ (wpc # "await" /\ elapsed >= max_wait_time /\ elapsed > 0 => queries' = queries)
        /\ (wpc = "await" /\ wpc' # "await" /\ lastStatus'.kind = "http2xx"
              /\ lastStatus'.data.status # Str("confirmed") /\ elapsed < max_wait_time
                => outcome' = "pending") ]_vars

\* C7: for every budget >= 0 and every gateway behaviour wait_for_tx
\* eventually returns, and it never issues more status queries than the budget.
C7_BoundedWait ==
    /\ <>Terminal
    /\ [](queries <= max_wait_time)

IsCallContract(rq) == rq = <<"POST", "call-contract">>
IsBalance(rq)      == rq = <<"GET", "balance">>
Posts(log) == {i \in DOMAIN log : IsCallContract(log[i])}

\* C3: the nonces submitted through call_contract are strictly
\* increasing across iterations of main: no nonce is submitted twice.
C3_StrictlyIncreasing ==
    \A i, j \in DOMAIN submitted : i < j => submitted[i].nonce < submitted[j].nonce

\* The nonce rule main and call_contract do keep: every submitted nonce is the
\* nonce that iteration's get_balance reported plus one, so across iterations
\* the submitted nonces never decrease, and they increase exactly when the
\* reported nonce did.
NonceFollowsGateway ==
    /\ \A i \in DOMAIN submitted : submitted[i].nonce = submitted[i].fetched + 1
    /\ \A i, j \in DOMAIN submitted : i < j =>
          /\ submitted[i].nonce <= submitted[j].nonce
          /\ (submitted[i].nonce < submitted[j].nonce
                <=> submitted[i].fetched < submitted[j].fetched)
    /\ (pc = "postwait" => submitted[Len(submitted)].fetched = nonce)

\* C4: when the gateway rejects POST /call-contract, as an HTTP error response
\* or as a body without tx_hash, call_contract fails with an error carrying
\* the rejection reason unchanged and hands no transaction hash to main.
IsRejection(resp) ==
    \/ resp.kind = "httpError"
    \/ resp.kind = "http2xx" /\ resp.data.tx_hash = Undefined
Carries(err, reason) ==
    /\ err # NoError
    /\ \E i \in DOMAIN err.message : err.message[i] = reason
C4_RejectionSurfaced ==
    (postResp # NoReq /\ IsRejection(postResp)) =>
        /\ pc = "crashed"
        /\ Carries(error, postResp.data.error.val)
        /\ txHash = NoValue

\* C5: every call_contract invocation uses the nonce of a get_balance issued
\* in the same iteration, after the previous call_contract: never a nonce
\* kept from an earlier iteration.
C5_FreshNonceEachCall ==
    pc \in {"call", "post"} =>
        /\ pc = "call" => freshNonce
        /\ Len(reqlog) >= 1 /\ IsBalance(reqlog[1])
        /\ Posts(reqlog) = {}

C5_Witness ==
    /\ pc = "call"
    /\ iter = 2
    /\ Len(submitted) = 1

\* C8: call_contract's transaction has nonce = currentNonce + 1, amount "0",
\* ou "1", from = caller, to_ = contract and a timestamp read once, before
\* signing; the nonce, timestamp, caller and contract in the submitted body
\* are the values inside the signed message.
C8_PayloadMatchesSigned ==
    pc = "postwait" =>
        LET p == inflight.data
        IN /\ p.signature.msg =
                stringify(blob([from |-> p.caller, to_ |-> p.contract, amount |-> <<"0">>,
                                nonce |-> p.nonce, ou |-> <<"1">>,
                                timestamp |-> p.timestamp]))
           /\ p.nonce = nonce + 1
           /\ p.caller = address
           /\ p.contract = contract_address
           /\ \E t \in 0..now : p.timestamp = Timestamp(t)

C8_Witness ==
    /\ pc = "postwait"
    /\ now > 0
    /\ inflight.data.timestamp = Timestamp(0)
    /\ inflight.data.nonce = 2

SignFailed == pc = "crashed" /\ error # NoError /\ error.name = "SignError"
C10_NoRequestBeforeSignFailure ==
    SignFailed => reqlog = <<>>

\* C10 (amended): when signing fails, call_contract has issued no request:
\* the submission POST is never sent, and the only gateway request of that
\* iteration before the failure is the get_balance that fetched the nonce.
C10_NoSubmissionBeforeSignFailure ==
    SignFailed =>
        /\ reqlog = << <<"GET", "balance">> >>
        /\ inflight = NoReq

C10_Witness == SignFailed /\ skLen # KeyLen

\* C11: a submission is never retried automatically: one call_contract
\* invocation issues at most one POST /call-contract, accepted or rejected,
\* and after a rejection nothing more is submitted until the user picks a
\* call again in a new run of main.
C11_NoAutomaticRetry ==
    /\ Cardinality(Posts(reqlog)) <= 1
    /\ Len(submitted) <= iter
    /\ (postResp # NoReq => pc \notin {"call", "post", "postwait"})
    /\ (pc \in {"post", "postwait"} => choice # NoChoice /\ choice.kind = "call")

C11_Witness ==
    /\ postResp # NoReq /\ IsRejection(postResp)
    /\ pc = "cont"
    /\ iter = 2
    /\ Len(submitted) = 2

\* C12: the message sign_tx signs is a function of exactly the six fields
\* from, to_, amount, nonce, ou, timestamp, in that order, and of nothing
\* else: the same six values give the same message and signature, and two
\* transactions that differ in any of the six give different messages.
SixFields(t) == <<t.from, t.to_, t.amount, t.nonce, t.ou, t.timestamp>>
IsKey(c) == c \in {"from", "to_", "amount", "nonce", "ou", "timestamp", "memo"}
C12_SignedMessage ==
    spc = "signed" =>
        /\ (SixFields(tx1) = SixFields(tx2)) <=> (sig1.msg = sig2.msg)
        /\ (sig1.msg = sig2.msg) <=> (sig1 = sig2)
        /\ SelectSeq(sig1.msg, IsKey) = <<"from", "to_", "amount", "nonce", "ou", "timestamp">>

C12_Witness ==
    /\ spc = "signed"
    /\ Differing(tx1, tx2) = {"nonce"}
    /\ sig1.msg # sig2.msg

\* C13: no request sent to the gateway and no line on the console contains
\* the private key: of the key only the derived public key and the signature
\* leave the process.
ConsoleTags ==
    {"Address", "Balance", "menu", "Exiting...", "Result", "Invalid selection",
     "Using nonce", "Transaction submitted.", "Transaction hash", "spinner"}
LineFreeOfKey(line) ==
    /\ line[1] \in ConsoleTags
    /\ (line[1] = "Address" => line[2] = address)
    /\ (line[1] = "Balance" => line[2].type = "string")
    /\ (line[1] = "Result" => line[2].type \in {"string", "object"})
    /\ (line[1] = "Using nonce" => line[2] \in Nat)
    /\ (line[1] = "Transaction hash" => line[2].type \in {"string", "undefined"})
    /\ (line[1] = "spinner" => line[2] \in {"confirmed", "timedOut"})
RequestFreeOfKey(rq) ==
    /\ (rq.url[1] = "balance" => rq.data = NoData /\ rq.url[2] = address)
    /\ (rq.url[1] = "tx" => rq.data = NoData /\ rq.url[2] = tx_hash)
    /\ (rq.url[1] = "contract" =>
            /\ DOMAIN rq.data = {"contract", "method", "params", "caller"}
            /\ rq.data.contract = contract_address
            /\ rq.data.caller = address
            /\ rq.data.method = choice.method
            /\ rq.data.params = choice.params)
    /\ (rq.url[1] = "call-contract" =>
            /\ DOMAIN rq.data = {"contract", "method", "params", "caller", "nonce",
                                 "timestamp", "signature", "public_key"}
            /\ rq.data.contract = contract_address
            /\ rq.data.caller = address
            /\ rq.data.method = choice.method
            /\ rq.data.params = choice.params
            /\ rq.data.nonce \in Nat
            /\ rq.data.timestamp # sk
            /\ rq.data.signature # sk
            /\ DOMAIN rq.data.signature = {"kind", "msg", "by"}
            /\ rq.data.signature.by = PublicKey(sk)
            /\ rq.data.public_key # sk
            /\ rq.data.public_key = PublicKey(sk))
C13_KeyStaysInside ==
    /\ \A line \in console : LineFreeOfKey(line)
    /\ (inflight # NoReq => RequestFreeOfKey(inflight))
    /\ (error # NoError => error.name \in {"Error", "AxiosError", "SignError"})

C13_Witness ==
    /\ inflight # NoReq
    /\ inflight.url[1] = "call-contract"
    /\ inflight.data.public_key = PublicKey(sk)
    /\ \E line \in console : line[1] = "Using nonce"

\* C14: the steps of one transaction are strictly sequential: the signature
\* exists before the submission is sent, a status query is issued only for
\* the hash the submission has returned, the next get_balance is issued only
\* after the previous submission and polling are over, and at most one
\* gateway request is outstanding at any time.
IsSubmission(e) == e = <<"POST", "call-contract">>
IsStatusQuery(e) == e = <<"GET", "tx">>
C14_StrictlySequential ==
    /\ outstanding <= 1
    /\ (outstanding = 1) <=> (inflight # NoReq)
    /\ (pc = "call" => signature = NoSig /\ outstanding = 0)
    /\ (pc \in {"call", "post"} => SelectSeq(reqlog, IsSubmission) = <<>>)
    /\ (pc = "postwait" =>
            /\ signature # NoSig
            /\ inflight.data.signature = signature
            /\ SelectSeq(reqlog, IsStatusQuery) = <<>>)
    /\ (wpc # "idle" =>
            /\ pc = "polling"
            /\ postResp.kind = "http2xx"
            /\ txHash = postResp.data.tx_hash
            /\ tx_hash = txHash
            /\ TxData = NoTx /\ signature = NoSig)
    /\ \A i \in DOMAIN reqlog :
            IsStatusQuery(reqlog[i]) => \E j \in 1..(i - 1) : IsSubmission(reqlog[j])
    /\ (pc \in {"start", "balance", "menu"} =>
            /\ wpc = "idle"
            /\ TxData = NoTx /\ signature = NoSig /\ postResp = NoReq
            /\ outstanding = IF pc = "balance" THEN 1 ELSE 0)

C14_Witness ==
    /\ iter = 2
    /\ pc = "polling" /\ wpc = "await"
    /\ outstanding = 1
    /\ queries = 2
    /\ Len(submitted) = 2

\* C15: wait_for_tx waits for the poll interval only between two consecutive
\* status queries: never after the query that returned "confirmed", never
\* after the query that used up the budget, so an invocation that has ended
\* after k status queries has waited exactly k-1 times.
C15_WaitsBetweenQueries ==
    /\ (Terminal => waits = queries - 1)
    /\ (wpc = "query" => waits = queries)
    /\ (wpc \in {"await", "sleep"} => waits = queries - 1)
    /\ (wpc = "sleep" =>
            /\ outcome = "pending"
            /\ lastStatus # Http2xx(StatusBody("confirmed"))
            /\ (Truthy(max_wait_time) => elapsed < max_wait_time))

C15_Witness ==
    /\ Terminal
    /\ outcome = "timedOut"
    /\ queries = 3
    /\ waits = 2

====
